---- MODULE Spec2Model ----
(***************************************************************************)
(* State-machine model of TexasScheduler (src/src/Client/index.ts): the    *)
(* startup sequence of run(), the poll loop of getLocationDatesAll() over  *)
(* a p-queue of concurrency 1, the availability filter and candidate       *)
(* dispatch of getLocationDates() and the retrying transport requestApi(). *)
(*                                                                         *)
(* Spec      is the program as the source has it: the call of holdSlot at  *)
(*           line 216 is commented out and nothing else calls holdSlot or  *)
(*           bookSlot, so no step of the program runs them and they have   *)
(*           no action here. The public getResponseId() may be called by   *)
(*           the holder of the object.                                     *)
(* FairSpec  is Spec with weak fairness of the program's steps (the event  *)
(*           loop delivers every response and fires every timer).          *)
(***************************************************************************)
EXTENDS Integers, Sequences, FiniteSets, TLC

\* ------------------------------------------------------------------ bounds
MaxLocations == 2
MaxRounds == 3
MaxRetry == 2
MaxDates == 2

\* ------------------------------------------------------- program constants
Concurrency == 1
NotExited == -1
\* this.availableLocation is null (line 35), or a falsy value read from the
\* cache file (line 129)
NullLocation == -1

\* the paths requestApi is called with
PathBooking == "/api/Booking"
PathCancelBooking == "/api/CancelBooking"
PathEligibility == "/api/Eligibility"
PathAvailableLocation == "/api/AvailableLocation/"
PathAvailableLocationDates == "/api/AvailableLocationDates"
PathHoldSlot == "/api/HoldSlot"
PathNewBooking == "/api/NewBooking"

NoReq == [path |-> "none", retryTime |-> 0, attempts |-> 0]
NoBooking == [loc |-> 0, day |-> 0, hour |-> 0]

\* ------------------------------------------------------------ configuration
\* parseConfig() of ../Config: the fields the client reads.
\* location.zipCode is the number of configured zip codes; day numbers count
\* from location.daysAround.startDate. The retry ceiling is none or
\* MaxRetry; the settings of the filter are varied in FilterConfigs.
Configs ==
    [cancelIfExist : BOOLEAN,
     maxRetry : {0, MaxRetry},
     webserver : BOOLEAN,
     pickDPSLocation : BOOLEAN,
     zipCode : {1, 2},
     sameDay : {FALSE},
     startDate : {0},
     daysAround : {[start |-> 0, end |-> 3]},
     preferredDays : {{}},
     timesAround : {[start |-> 8, end |-> 12]}]

\* AvailableLocationDatesResponse.LocationAvailabilityDates: dates in the
\* order returned, each a calendar day and the start hours of its slots.
Date(day, slots) == [AvailabilityDate |-> day, AvailableTimeSlots |-> slots]

DatesResponses ==
    { << >>,
      << Date(1, <<10>>) >>,
      << Date(1, <<14>>) >>,
      << Date(5, <<10>>) >>,
      << Date(1, << >>) >>,
      << Date(2, <<7, 11, 9>>), Date(1, <<10>>) >> }

\* The filter on its own: every window setting against every response of up
\* to MaxDates dates, on days before, at the ends of, inside and after the
\* window, with slots below, at the ends of, inside and above the hours.
FilterConfigs ==
    [cancelIfExist : {TRUE},
     maxRetry : {0},
     webserver : {TRUE},
     pickDPSLocation : {FALSE},
     zipCode : {1},
     sameDay : BOOLEAN,
     startDate : {0},
     daysAround : {[start |-> 0, end |-> 3]},
     preferredDays : {{}, {1, 3}},
     timesAround : {[start |-> 8, end |-> 12], [start |-> 10, end |-> 11]}]

SlotLists ==
    { << >>, <<7>>, <<8>>, <<12>>, <<10, 8>>, <<12, 11>>, <<7, 10, 14>> }

FilterDates == {Date(d, sl) : d \in 0..4, sl \in SlotLists}

FilterInputs == UNION {[1..n -> FilterDates] : n \in 0..MaxDates}

\* ------------------------------------------------------ availability filter
\* dayjs(date).day(): day 0 of the model is a Sunday.
Weekday(day) == day % 7

\* dayjs isBetween(a, b, 'day') with the default inclusivity '()'.
IsBetween(d, a, b) == (a < d /\ d < b) \/ (b < d /\ d < a)

PreferredDaysCondition(w, day) ==
    IF w.preferredDays # {} THEN Weekday(day) \in w.preferredDays ELSE TRUE

\* the predicate of lines 182-192
DateKept(w, date) ==
    /\ IsBetween(date.AvailabilityDate,
                 w.startDate + w.daysAround.start,
                 w.startDate + w.daysAround.end)
    /\ Len(date.AvailableTimeSlots) > 0
    /\ PreferredDaysCondition(w, date.AvailabilityDate)

AvailableDatesAlwaysWindowed(w, dates) ==
    SelectSeq(dates, LAMBDA d : DateKept(w, d))

\* lines 179-193
AvailableDates(w, dates) ==
    IF ~w.sameDay THEN SelectSeq(dates, LAMBDA d : DateKept(w, d)) ELSE dates

SlotKeptInclusiveEnd(w, startHour) ==
    startHour >= w.timesAround.start /\ startHour <= w.timesAround.end

\* the predicate of lines 197-201
SlotKept(w, startHour) ==
    startHour >= w.timesAround.start /\ startHour < w.timesAround.end

FilterTimeSlots(w, date) ==
    [date EXCEPT !.AvailableTimeSlots =
        SelectSeq(date.AvailableTimeSlots, LAMBDA h : SlotKept(w, h))]

MapDates(w, dates) == [i \in 1..Len(dates) |-> FilterTimeSlots(w, dates[i])]

\* lines 196-206
FilteredAvailabilityDates(w, dates) ==
    SelectSeq(MapDates(w, AvailableDates(w, dates)),
              LAMBDA d : Len(d.AvailableTimeSlots) > 0)

\* outcome of lines 179-221 on one response:
\*   "unavailable"  line 219-221, Promise.reject()
\*   "error"        line 208 reads [0] of an empty list: TypeError, the
\*                  async function rejects
\*   "found"        line 208 picks the candidate
CheckOutcome(w, dates) ==
    IF Len(AvailableDates(w, dates)) # 0
    THEN IF Len(FilteredAvailabilityDates(w, dates)) = 0 THEN "error" ELSE "found"
    ELSE "unavailable"

CandidateEarliest(w, loc, dates) ==
    LET f == FilteredAvailabilityDates(w, dates)
        i == CHOOSE i \in 1..Len(f) :
                 \A k \in 1..Len(f) : f[i].AvailabilityDate <= f[k].AvailabilityDate
        sl == f[i].AvailableTimeSlots
        j == CHOOSE j \in 1..Len(sl) : \A k \in 1..Len(sl) : sl[j] <= sl[k]
    IN [loc |-> loc, day |-> f[i].AvailabilityDate, hour |-> sl[j]]

\* line 208
Candidate(w, loc, dates) ==
    LET d == FilteredAvailabilityDates(w, dates)[1]
    IN [loc |-> loc, day |-> d.AvailabilityDate, hour |-> d.AvailableTimeSlots[1]]

\* ------------------------------------------------------------------- state
VARIABLES
    config,             \* this.config
    pc,                 \* where run() is suspended
    req,                \* the request run() awaits (startup), or NoReq
    eligibility,        \* the request a call of getResponseId() awaits, or NoReq
    zipIndex,           \* i of getAllLocationFromZipCodes
    existBooking,       \* this.existBooking?.exist (undefined reads as FALSE)
    availableLocation,  \* this.availableLocation.length, or NullLocation
    nullElements,       \* the i with this.availableLocation[i - 1] null
    queue,              \* this.queue: the checks waiting, in order
    running,            \* this.queue: the checks started and not settled
    isPaused,           \* this.queue.isPaused
    round,              \* iteration of the for(;;) of getLocationDatesAll
    resolved,           \* checks of the awaited addAll that resolved
    checked,            \* the checks getLocationDates was called for
    isHolded,           \* this.isHolded
    isBooked,           \* this.isBooked
    booking,            \* the slot chosen at line 208
    exitCode,           \* process.exit code, NotExited while running
    exitCause,          \* which exit was taken
    fatalAttempts,      \* attempts made by the request that hit the ceiling
    sent,               \* paths requested so far
    found,              \* some check has reached line 210
    thrown,             \* some check was rejected because its request threw
    locationAvailabilityDates,  \* response.LocationAvailabilityDates (line 179)
    availableDates,             \* AvailableDates of lines 179-193
    filteredAvailabilityDates,  \* filteredAvailabilityDates of lines 196-206
    filterApplied               \* lines 179-206 have run on the response

runVars == <<pc, req, zipIndex, existBooking, availableLocation, nullElements>>
queueVars == <<queue, running, isPaused, round, resolved, checked>>
holdVars == <<isHolded, isBooked, booking>>
exitVars == <<exitCode, exitCause, fatalAttempts>>
histVars == <<sent, found>>
inputVars == <<locationAvailabilityDates, availableDates,
               filteredAvailabilityDates, filterApplied>>
vars == <<config, inputVars, eligibility, thrown, runVars, queueVars, holdVars, exitVars,
          histVars>>

\* ---------------------------------------------------------------- transport
\* requestApi(path, method, body, retryTime = 0), lines 224-235
NewReq(path) == [path |-> path, retryTime |-> 0, attempts |-> 1]

\* line 240: requestApi(path, method, body, retryTime + 1)
RetryReq(r) == [r EXCEPT !.retryTime = @ + 1, !.attempts = @ + 1]

CanRetryOffByOne(cfg, retryTime) == retryTime <= cfg.maxRetry

\* line 237
CanRetry(cfg, retryTime) == retryTime < cfg.maxRetry

\* lines 242-243
RetryFailed(r) ==
    /\ exitCode' = 1
    /\ exitCause' = "retry"
    /\ fatalAttempts' = r.attempts

Exit(code, cause) ==
    /\ exitCode' = code
    /\ exitCause' = cause
    /\ UNCHANGED fatalAttempts

Alive == exitCode = NotExited

\* ------------------------------------------------------------------ p-queue
Task(loc, r) == [loc |-> loc, round |-> r]

\* getLocationDates lines 169-178 for a location that is not null: the check
\* issues its request and waits for the answer
Started(t) == [loc |-> t.loc, round |-> t.round, req |-> NewReq(PathAvailableLocationDates)]

\* line 172 reads location.Id: for a null element of this.availableLocation
\* (cache/location.json is stored as parsed, line 129) it throws before any
\* request is made, and the check rejects as it starts
ThrowsAtStart(t, nulls) == t.loc \in nulls

MayStartOverlapping(q, run, paused) ==
    ~paused /\ Len(q) > 0 /\ Cardinality(run) <= Concurrency

\* p-queue: the queue is not paused, a job waits, and fewer than
\* `concurrency` (line 39) jobs are pending
MayStart(q, run, paused) ==
    ~paused /\ Len(q) > 0 /\ Cardinality(run) < Concurrency

\* p-queue starts the next job while it is not paused and fewer than
\* `concurrency` jobs are pending; a started job calls getLocationDates. A
\* check that throws at line 172 is settled (rejected) at once and p-queue
\* goes on to the job after it. `checked` are the checks started, `rejected`
\* the rounds of the checks that threw at line 172.
RECURSIVE ProcessQueue(_, _, _, _)
ProcessQueue(q, run, paused, nulls) ==
    IF MayStart(q, run, paused)
    THEN LET t == Head(q)
             throws == ThrowsAtStart(t, nulls)
             rest == ProcessQueue(Tail(q),
                                  IF throws THEN run ELSE run \cup {Started(t)},
                                  paused, nulls)
         IN [rest EXCEPT !.checked = @ \cup {t},
                         !.rejected = IF throws THEN @ \cup {t.round} ELSE @]
    ELSE [queue |-> q, running |-> run, checked |-> {}, rejected |-> {}]

AddAllNotAwaited == "sleep"

\* line 164: await this.queue.addAll(...): run() waits for the round added
AwaitAddAll == "addAll"

RejectUncaught == "rejected"

\* line 164: .catch(() => null), and run() goes on to line 165
CatchReject == "sleep"

\* line 161 and queue.addAll of line 164
GetLocationFunctions(n, r) == [i \in 1..n |-> Task(i, r)]

\* line 164 with n functions: addAll of an empty list resolves at once and
\* run() goes on to the sleep of line 165; so it does when a check of the
\* round has rejected already (line 172); otherwise run() waits
AfterAddAll(n, rejected) ==
    IF n = 0 THEN "sleep" ELSE IF rejected THEN CatchReject ELSE AwaitAddAll

\* line 164: the round r is added to the queue and p-queue starts what it may
AddAll(n, nulls, r) ==
    LET pq == ProcessQueue(queue \o GetLocationFunctions(n, r), running, isPaused,
                           nulls)
    IN /\ queue' = pq.queue
       /\ running' = pq.running
       /\ checked' = checked \cup pq.checked
       /\ sent' = IF pq.running # running
                  THEN sent \cup {PathAvailableLocationDates} ELSE sent
       /\ pc' = AfterAddAll(n, r \in pq.rejected)

\* line 41-50 and line 54: the constructor calls run(), which requests the
\* existing bookings.
Init ==
    /\ config \in Configs
    /\ pc = "checkExistBooking"
    /\ req = NewReq(PathBooking)
    /\ eligibility = NoReq
    /\ zipIndex = 0
    /\ existBooking = FALSE
    /\ availableLocation = NullLocation
    /\ nullElements = {}
    /\ queue = << >>
    /\ running = {}
    /\ isPaused = FALSE
    /\ round = 0
    /\ resolved = 0
    /\ checked = {}
    /\ isHolded = FALSE
    /\ isBooked = FALSE
    /\ booking = NoBooking
    /\ exitCode = NotExited
    /\ exitCause = "none"
    /\ fatalAttempts = 0
    /\ sent = {PathBooking}
    /\ found = FALSE
    /\ thrown = FALSE
    /\ locationAvailabilityDates = << >>
    /\ availableDates = << >>
    /\ filteredAvailabilityDates = << >>
    /\ filterApplied = FALSE

\* ------------------------------------------------------------------ startup
\* requestApi lines 236-241 for the request run() awaits
RunRetry ==
    /\ Alive /\ req # NoReq
    /\ CanRetry(config, req.retryTime)
    /\ req' = RetryReq(req)
    /\ UNCHANGED <<config, inputVars, eligibility, thrown, pc, zipIndex, existBooking, availableLocation, nullElements,
                   queueVars, holdVars, exitVars, histVars>>

\* requestApi lines 242-243 for the request run() awaits
RunRetryFailed ==
    /\ Alive /\ req # NoReq
    /\ ~CanRetry(config, req.retryTime)
    /\ RetryFailed(req)
    /\ UNCHANGED <<config, inputVars, eligibility, thrown, runVars, queueVars, holdVars, histVars>>

\* checkExistBooking lines 72-77, run lines 54-60, and the first request
\* of getAllLocationFromZipCodes
CheckExistBooking(exist) ==
    /\ Alive /\ pc = "checkExistBooking" /\ req # NoReq
    /\ existBooking' = exist
    /\ pc' = "requestAvailableLocation"
    /\ zipIndex' = 0
    /\ req' = NewReq(PathAvailableLocation)
    /\ sent' = sent \cup {PathAvailableLocation}
    /\ UNCHANGED <<config, inputVars, eligibility, thrown, availableLocation, nullElements, queueVars, holdVars, exitVars,
                   found>>

\* getAllLocationFromZipCodes lines 107-120: one more zip code to ask for
NextZipCode ==
    /\ Alive /\ pc = "requestAvailableLocation" /\ req # NoReq
    /\ zipIndex + 1 < config.zipCode
    /\ zipIndex' = zipIndex + 1
    /\ req' = NewReq(PathAvailableLocation)
    /\ UNCHANGED <<config, inputVars, eligibility, thrown, pc, existBooking, availableLocation, nullElements, queueVars,
                   holdVars, exitVars, histVars>>

LastZipCode ==
    /\ Alive /\ pc = "requestAvailableLocation" /\ req # NoReq
    /\ zipIndex + 1 >= config.zipCode

\* run line 61, getLocationDatesAll lines 158-164: the first round over n
\* locations, those at the places `nulls` being null
StartPolling(n, nulls) ==
    /\ availableLocation' = n
    /\ nullElements' = nulls
    /\ req' = NoReq
    /\ round' = 1
    /\ resolved' = 0
    /\ AddAll(n, nulls, 1)
    /\ UNCHANGED <<config, inputVars, eligibility, thrown, zipIndex, existBooking, isPaused, holdVars,
                   exitVars, found>>

\* requestAvailableLocation lines 127-132: cache/location.json exists and
\* holds an array of n elements; neither its length nor its elements are
\* looked at, so n may be 0 and any of the elements may be null
PickFromCache(n, nulls) ==
    /\ LastZipCode
    /\ config.pickDPSLocation
    /\ nulls \subseteq 1..n
    /\ StartPolling(n, nulls)

\* lines 127-132 and line 160: cache/location.json holds null (or another
\* falsy value); getLocationDatesAll returns at once and run() ends: no
\* round is added and no timer is set
PickFromCacheNull ==
    /\ LastZipCode
    /\ config.pickDPSLocation
    /\ availableLocation' = NullLocation
    /\ nullElements' = {}
    /\ req' = NoReq
    /\ pc' = "done"
    /\ UNCHANGED <<config, inputVars, eligibility, thrown, zipIndex, existBooking, queueVars,
                   holdVars, exitVars, histVars>>

\* lines 127-132 and line 161: cache/location.json does not parse (line 129
\* throws) or holds a value that is not falsy and has no map (line 161
\* throws); run() rejects, nothing catches it (line 50) and node ends with
\* code 1
PickFromCacheBad ==
    /\ LastZipCode
    /\ config.pickDPSLocation
    /\ Exit(1, "crash")
    /\ UNCHANGED <<config, inputVars, eligibility, thrown, runVars, queueVars, holdVars, histVars>>

\* requestAvailableLocation lines 133-146: n locations are selected at the
\* prompt; they are elements of the API's answer, none of them null
PickLocation(n) ==
    /\ LastZipCode
    /\ config.pickDPSLocation
    /\ n >= 1
    /\ StartPolling(n, {})

\* lines 139-142: nothing selected at the prompt
PickNothing ==
    /\ LastZipCode
    /\ config.pickDPSLocation
    /\ Exit(1, "noselection")
    /\ UNCHANGED <<config, inputVars, eligibility, thrown, runVars, queueVars, holdVars, histVars>>

\* lines 147, 152-155: n locations are nearer than location.miles (line 147
\* has read the Distance of each, so none is null)
FilterByDistance(n) ==
    /\ LastZipCode
    /\ ~config.pickDPSLocation
    /\ n >= 1
    /\ StartPolling(n, {})

\* lines 148-151: locations were returned, none nearer than location.miles
NoLocationFound ==
    /\ LastZipCode
    /\ ~config.pickDPSLocation
    /\ Exit(0, "nolocation")
    /\ UNCHANGED <<config, inputVars, eligibility, thrown, runVars, queueVars, holdVars, histVars>>

\* lines 147-149: no location was returned for any zip code; the message of
\* line 149 reads response[0].Distance and throws before line 150; run()
\* rejects, nothing catches it (line 50) and node ends with code 1
NoLocationReturned ==
    /\ LastZipCode
    /\ ~config.pickDPSLocation
    /\ Exit(1, "crash")
    /\ UNCHANGED <<config, inputVars, eligibility, thrown, runVars, queueVars, holdVars, histVars>>

\* line 225 throws for the request run() awaits (or its answer cannot be
\* read, lines 72-74, 115): run() rejects, nothing catches it (line 50) and
\* node ends with code 1
RunThrow ==
    /\ Alive /\ req # NoReq
    /\ Exit(1, "crash")
    /\ UNCHANGED <<config, inputVars, eligibility, thrown, runVars, queueVars, holdVars, histVars>>

\* ---------------------------------------------------------------- poll loop
\* A check settles: p-queue takes it off its pending jobs and starts the
\* next one (unless paused); the addAll of line 164 is a Promise.all over the
\* checks of the round, so it rejects with the first of them to reject (the
\* settling check, or one started now that throws at line 172) and resolves
\* when all have resolved; run() then goes on to the sleep of line 165.
Settle(t, ok, paused) ==
    LET pq == ProcessQueue(queue, running \ {t}, paused, nullElements)
        mine == pc = "addAll" /\ t.round = round
    IN /\ queue' = pq.queue
       /\ running' = pq.running
       /\ checked' = checked \cup pq.checked
       /\ isPaused' = paused
       /\ sent' = IF pq.running \ running # {}
                  THEN sent \cup {PathAvailableLocationDates} ELSE sent
       /\ resolved' = IF mine /\ ok THEN resolved + 1 ELSE resolved
       /\ pc' = IF mine /\ ~ok THEN CatchReject
                ELSE IF mine /\ resolved + 1 = availableLocation THEN "sleep"
                ELSE IF pc = "addAll" /\ round \in pq.rejected THEN CatchReject
                ELSE pc
       /\ UNCHANGED round

\* requestInstance.request of line 225 throws: getLocationDates rejects
CheckThrow(t) ==
    /\ Alive /\ t \in running
    /\ Settle(t, FALSE, isPaused)
    /\ thrown' = TRUE
    /\ UNCHANGED <<config, inputVars, eligibility, req, zipIndex, existBooking, availableLocation, nullElements,
                   holdVars, exitVars, found>>

\* requestApi lines 236-241 for the request of a check
CheckRetry(t) ==
    /\ Alive /\ t \in running
    /\ CanRetry(config, t.req.retryTime)
    /\ running' = (running \ {t}) \cup {[t EXCEPT !.req = RetryReq(t.req)]}
    /\ UNCHANGED <<config, inputVars, eligibility, thrown, runVars, queue, isPaused, round, resolved, checked,
                   holdVars, exitVars, histVars>>

\* requestApi lines 242-243 for the request of a check
CheckRetryFailed(t) ==
    /\ Alive /\ t \in running
    /\ ~CanRetry(config, t.req.retryTime)
    /\ RetryFailed(t.req)
    /\ UNCHANGED <<config, inputVars, eligibility, thrown, runVars, queueVars, holdVars, histVars>>

\* getLocationDates lines 178-195 and 219-221: nothing passes the date filter
CheckUnavailable(t, dates) ==
    /\ Alive /\ t \in running
    /\ CheckOutcome(config, dates) = "unavailable"
    /\ Settle(t, FALSE, isPaused)
    /\ UNCHANGED <<config, inputVars, eligibility, thrown, req, zipIndex, existBooking, availableLocation, nullElements,
                   holdVars, exitVars, found>>

PauseBeforeThrow(paused) == TRUE

\* line 208 throws before the pause of line 211 is reached
PauseAtThrow(paused) == paused

\* getLocationDates lines 195-208: dates pass, no slot does, line 208 throws
CheckError(t, dates) ==
    /\ Alive /\ t \in running
    /\ CheckOutcome(config, dates) = "error"
    /\ Settle(t, FALSE, PauseAtThrow(isPaused))
    /\ UNCHANGED <<config, inputVars, eligibility, thrown, req, zipIndex, existBooking, availableLocation, nullElements,
                   holdVars, exitVars, found>>

\* line 211: if (!this.queue.isPaused) this.queue.pause()
PauseQueue(paused) == IF ~paused THEN TRUE ELSE paused

PolicyViolationInverted(cfg, exist) == cfg.cancelIfExist /\ exist

\* line 212
PolicyViolation(cfg, exist) == ~cfg.cancelIfExist /\ exist

\* getLocationDates lines 195-215: a candidate, and the existing booking may
\* not be cancelled
CheckPolicyExit(t, dates) ==
    /\ Alive /\ t \in running
    /\ CheckOutcome(config, dates) = "found"
    /\ PolicyViolation(config, existBooking)
    /\ isPaused' = PauseQueue(isPaused)
    /\ found' = TRUE
    /\ booking' = Candidate(config, t.loc, dates)
    /\ Exit(0, "policy")
    /\ UNCHANGED <<config, inputVars, eligibility, thrown, runVars, queue, running, round, checked,
                   resolved, isHolded, isBooked, sent>>

\* getLocationDates lines 195-217 as the source has them: the queue is
\* paused and the check resolves; holdSlot is not called
CheckFound(t, dates) ==
    /\ Alive /\ t \in running
    /\ CheckOutcome(config, dates) = "found"
    /\ ~PolicyViolation(config, existBooking)
    /\ found' = TRUE
    /\ booking' = Candidate(config, t.loc, dates)
    /\ Settle(t, TRUE, PauseQueue(isPaused))
    /\ UNCHANGED <<config, inputVars, eligibility, thrown, req, zipIndex, existBooking,
                   availableLocation, nullElements, isHolded, isBooked, exitVars>>

\* getLocationDatesAll lines 165, 162-164: the timer fires and the next
\* round is added to the queue
SleepDone ==
    /\ Alive /\ pc = "sleep"
    /\ round < MaxRounds
    /\ round' = round + 1
    /\ resolved' = 0
    /\ AddAll(availableLocation, nullElements, round + 1)
    /\ UNCHANGED <<config, inputVars, eligibility, thrown, req, zipIndex, existBooking, availableLocation, nullElements,
                   isPaused, holdVars, exitVars, found>>

\* lines 43-46: without the web server nothing keeps the process alive once
\* no request and no timer is outstanding (run() awaits an addAll whose
\* checks cannot run, or has returned at line 160); node ends with code 0
Drain ==
    /\ Alive /\ ~config.webserver
    /\ pc \in {"addAll", "done"} /\ running = {}
    /\ eligibility = NoReq
    /\ Exit(0, "drain")
    /\ UNCHANGED <<config, inputVars, eligibility, thrown, runVars, queueVars, holdVars, histVars>>

\* ------------------------------------------------------------ getResponseId
\* getResponseId is public: nothing the program runs calls it (its only call
\* is in bookSlot), but the holder of the object may, at any time the
\* process is alive. One call at a time is modelled.
\* lines 93-100: the call requests /api/Eligibility
GetResponseId ==
    /\ Alive /\ eligibility = NoReq
    /\ eligibility' = NewReq(PathEligibility)
    /\ sent' = sent \cup {PathEligibility}
    /\ UNCHANGED <<config, inputVars, thrown, runVars, queueVars, holdVars,
                   exitVars, found>>

\* requestApi lines 236-241 for the request of getResponseId
ResponseIdRetry ==
    /\ Alive /\ eligibility # NoReq
    /\ CanRetry(config, eligibility.retryTime)
    /\ eligibility' = RetryReq(eligibility)
    /\ UNCHANGED <<config, inputVars, thrown, runVars, queueVars, holdVars,
                   exitVars, histVars>>

\* requestApi lines 242-243 for the request of getResponseId
ResponseIdRetryFailed ==
    /\ Alive /\ eligibility # NoReq
    /\ ~CanRetry(config, eligibility.retryTime)
    /\ RetryFailed(eligibility)
    /\ UNCHANGED <<config, inputVars, eligibility, thrown, runVars, queueVars,
                   holdVars, histVars>>

\* lines 100-101: the answer has status 200 and the call returns
\* response[0].ResponseId to its caller; or line 225, the body or
\* response[0] throws and the call rejects to its caller. The client itself
\* keeps nothing of either.
ResponseIdReturn ==
    /\ Alive /\ eligibility # NoReq
    /\ eligibility' = NoReq
    /\ UNCHANGED <<config, inputVars, thrown, runVars, queueVars, holdVars,
                   exitVars, histVars>>

ResponseId ==
    \/ ResponseIdRetry
    \/ ResponseIdRetryFailed
    \/ ResponseIdReturn

Startup ==
    \/ RunRetry
    \/ RunRetryFailed
    \/ RunThrow
    \/ \E exist \in BOOLEAN : CheckExistBooking(exist)
    \/ NextZipCode
    \/ \E n \in 0..MaxLocations : \E nulls \in SUBSET (1..n) : PickFromCache(n, nulls)
    \/ PickFromCacheNull
    \/ PickFromCacheBad
    \/ \E n \in 1..MaxLocations : PickLocation(n)
    \/ PickNothing
    \/ \E n \in 1..MaxLocations : FilterByDistance(n)
    \/ NoLocationFound
    \/ NoLocationReturned

Polling ==
    \/ \E t \in running : CheckThrow(t)
    \/ \E t \in running : CheckRetry(t)
    \/ \E t \in running : CheckRetryFailed(t)
    \/ \E t \in running, dates \in DatesResponses : CheckUnavailable(t, dates)
    \/ \E t \in running, dates \in DatesResponses : CheckError(t, dates)
    \/ \E t \in running, dates \in DatesResponses : CheckPolicyExit(t, dates)
    \/ SleepDone

\* the steps of run() and of the checks
Run ==
    \/ Startup
    \/ Polling
    \/ \E t \in running, dates \in DatesResponses : CheckFound(t, dates)
    \/ Drain

Next ==
    \/ Run
    \/ GetResponseId
    \/ ResponseId

Spec == Init /\ [][Next]_vars

\* the event loop delivers every answer and fires every timer; nothing
\* makes the holder of the object call getResponseId, and calls of it do
\* not keep the process from ending for ever
FairSpec == Spec /\ WF_vars(Run) /\ WF_vars(ResponseId) /\ SF_vars(Drain)

\* ------------------------------------------------- the filter on its own
\* getLocationDatesAll has added the first round of two locations; the API
\* answers every check with locationAvailabilityDates.
InitFilter ==
    /\ config \in FilterConfigs
    /\ locationAvailabilityDates \in FilterInputs
    /\ availableDates = << >>
    /\ filteredAvailabilityDates = << >>
    /\ filterApplied = FALSE
    /\ thrown = FALSE
    /\ pc = AwaitAddAll
    /\ req = NoReq
    /\ eligibility = NoReq
    /\ zipIndex = 0
    /\ existBooking = FALSE
    /\ availableLocation = 2
    /\ nullElements = {}
    /\ queue = << Task(2, 1) >>
    /\ running = {Started(Task(1, 1))}
    /\ isPaused = FALSE
    /\ round = 1
    /\ resolved = 0
    /\ checked = {Task(1, 1)}
    /\ isHolded = FALSE
    /\ isBooked = FALSE
    /\ booking = NoBooking
    /\ exitCode = NotExited
    /\ exitCause = "none"
    /\ fatalAttempts = 0
    /\ sent = {PathBooking, PathAvailableLocation, PathAvailableLocationDates}
    /\ found = FALSE

\* getLocationDates lines 179-206 on the response
ApplyFilter ==
    /\ Alive /\ ~filterApplied /\ running # {}
    /\ availableDates' = AvailableDates(config, locationAvailabilityDates)
    /\ filteredAvailabilityDates' =
           FilteredAvailabilityDates(config, locationAvailabilityDates)
    /\ filterApplied' = TRUE
    /\ UNCHANGED <<config, locationAvailabilityDates, eligibility, thrown, runVars,
                   queueVars, holdVars, exitVars, histVars>>

NextFilter ==
    \/ ApplyFilter
    \/ filterApplied /\ \E t \in running :
           CheckUnavailable(t, locationAvailabilityDates)
    \/ filterApplied /\ \E t \in running :
           CheckError(t, locationAvailabilityDates)
    \/ filterApplied /\ \E t \in running :
           CheckFound(t, locationAvailabilityDates)

FilterSpec == InitFilter /\ [][NextFilter]_vars

\* ------------------------------------------------------------------- claims
BookPaths == {PathCancelBooking, PathNewBooking}

\* a check of the awaited round is still waiting or executing
RoundUnfinished ==
    \/ \E t \in running : t.round = round
    \/ \E i \in 1..Len(queue) : queue[i].round = round

\* C1: once a check has found a candidate with no existing booking in the
\* way, a hold-slot request has been issued for it (one location reaches
\* Holding).
C1_HoldIssuedForCandidate == (found /\ Alive) => PathHoldSlot \in sent

\* C2: a request is attempted at most maxRetry + 1 times; when the process
\* exits on the retry ceiling the failed request has made exactly
\* maxRetry + 1 attempts and the exit code is 1; after the exit no request
\* and no location check is started.
C2_RetryCeiling ==
    /\ [](/\ req.attempts <= config.maxRetry + 1
          /\ eligibility.attempts <= config.maxRetry + 1
          /\ \A t \in running : t.req.attempts <= config.maxRetry + 1)
    /\ [](exitCause = "retry" =>
            exitCode = 1 /\ fatalAttempts = config.maxRetry + 1)
    /\ [][~Alive => UNCHANGED <<sent, req, eligibility, running, queue>>]_vars

C2_Witness ==
    exitCause = "retry" /\ config.maxRetry = MaxRetry /\ fatalAttempts = MaxRetry + 1

\* C4: once a check has paused the queue, the process eventually exits or
\* the queue is resumed.
C4_PausedEventuallyEnds ==
    (isPaused /\ Alive /\ round < MaxRounds) ~> (~Alive \/ ~isPaused)

C9_SleepAfterRoundDone == pc = "sleep" => ~RoundUnfinished

\* C10: at most one location check is executing.
C10_OneCheckAtATime == Cardinality(running) <= 1

C10_Witness ==
    /\ Cardinality(running) = 1 /\ ~isPaused
    /\ \E i \in 1..Len(queue) : \E t \in running : queue[i].round > t.round

\* ------------------------------------------- claims on the availability filter
\* The filter as the specification words it, written without the operators
\* of the model above.
InWindowInclusive(w, day) ==
    /\ w.startDate + w.daysAround.start <= day
    /\ day <= w.startDate + w.daysAround.end

WeekdayPreferred(w, day) == w.preferredDays = {} \/ (day % 7) \in w.preferredDays

HourInWindow(w, h) == w.timesAround.start <= h /\ h < w.timesAround.end

HasSurvivingSlot(w, date) ==
    \E j \in 1..Len(date.AvailableTimeSlots) :
        HourInWindow(w, date.AvailableTimeSlots[j])

RECURSIVE KeepHours(_, _)
KeepHours(w, slots) ==
    IF slots = << >> THEN << >>
    ELSE (IF HourInWindow(w, Head(slots)) THEN <<Head(slots)>> ELSE << >>)
         \o KeepHours(w, Tail(slots))

Days(dates) == [i \in 1..Len(dates) |-> dates[i].AvailabilityDate]

\* first slot in the window of the first date of dates that has one
FirstSurviving(w, dates) ==
    LET i == CHOOSE i \in 1..Len(dates) :
                 /\ HasSurvivingSlot(w, dates[i])
                 /\ \A k \in 1..(i - 1) : ~HasSurvivingSlot(w, dates[k])
        sl == dates[i].AvailableTimeSlots
        j == CHOOSE j \in 1..Len(sl) :
                 /\ HourInWindow(w, sl[j])
                 /\ \A k \in 1..(j - 1) : ~HourInWindow(w, sl[k])
    IN [day |-> dates[i].AvailabilityDate, hour |-> sl[j]]

\* first slot of the first date of dates that has any slot
FirstReturned(dates) ==
    LET i == CHOOSE i \in 1..Len(dates) :
                 /\ Len(dates[i].AvailableTimeSlots) > 0
                 /\ \A k \in 1..(i - 1) : Len(dates[k].AvailableTimeSlots) = 0
    IN [day |-> dates[i].AvailabilityDate, hour |-> dates[i].AvailableTimeSlots[1]]

\* C11: in windowed mode the dates the filter keeps are exactly the returned
\* dates whose day lies in the window with both end days included, whose
\* weekday is preferred (or no weekday is), and which have a slot in the
\* hour window.
C11_WindowEndsIncluded ==
    (filterApplied /\ ~config.sameDay)
    => Days(filteredAvailabilityDates) =
       Days(SelectSeq(locationAvailabilityDates,
                      LAMBDA d : /\ InWindowInclusive(config, d.AvailabilityDate)
                                 /\ WeekdayPreferred(config, d.AvailabilityDate)
                                 /\ HasSurvivingSlot(config, d)))

\* C12 as stated: in same-day mode a candidate is the first returned slot of
\* the first returned date with a non-empty slot list, and a response with
\* such a date gives a candidate.
C12_SameDayNoNarrowing ==
    (filterApplied /\ config.sameDay)
    => /\ found => (booking.day = FirstReturned(locationAvailabilityDates).day
                    /\ booking.hour = FirstReturned(locationAvailabilityDates).hour)
       /\ Days(filteredAvailabilityDates) =
          Days(SelectSeq(locationAvailabilityDates,
                         LAMBDA d : Len(d.AvailableTimeSlots) > 0))

\* C12 amended: in same-day mode the day window and the weekday set remove
\* no date and no date is dropped before the hour filter; the hour window
\* still applies: the dates left are the returned dates with a slot in the
\* hour window, and a candidate is the first such slot of the first such
\* date.
C12_SameDayHourFilterOnly ==
    (filterApplied /\ config.sameDay)
    => /\ availableDates = locationAvailabilityDates
       /\ Days(filteredAvailabilityDates) =
          Days(SelectSeq(locationAvailabilityDates,
                         LAMBDA d : HasSurvivingSlot(config, d)))
       /\ found => (booking.day = FirstSurviving(config, locationAvailabilityDates).day
                    /\ booking.hour = FirstSurviving(config, locationAvailabilityDates).hour)

C12_Witness ==
    /\ filterApplied /\ config.sameDay /\ found
    /\ ~InWindowInclusive(config, booking.day)
    /\ ~WeekdayPreferred(config, booking.day)
    /\ booking.hour # FirstReturned(locationAvailabilityDates).hour

\* C13: a slot survives the hour filter iff start <= hour < end: the dates
\* left are the dates that passed the date filter and have such a slot, each
\* with exactly its slots in the hour window, in the order returned.
C13_HourFilter ==
    filterApplied
    => LET kept == SelectSeq(availableDates,
                             LAMBDA d : HasSurvivingSlot(config, d))
       IN /\ Len(filteredAvailabilityDates) = Len(kept)
          /\ \A i \in 1..Len(kept) :
                 /\ filteredAvailabilityDates[i].AvailabilityDate =
                    kept[i].AvailabilityDate
                 /\ filteredAvailabilityDates[i].AvailableTimeSlots =
                    KeepHours(config, kept[i].AvailableTimeSlots)

\* slots at 7, 10 and 14 with the window [8, 12) leave the slot at 10, which
\* is the candidate; and a slot at the end hour 12 is dropped from a response
C13_Witness ==
    /\ filterApplied /\ found
    /\ config.timesAround = [start |-> 8, end |-> 12]
    /\ Len(locationAvailabilityDates) = 2
    /\ locationAvailabilityDates[1].AvailableTimeSlots = <<12>>
    /\ locationAvailabilityDates[2].AvailableTimeSlots = <<7, 10, 14>>
    /\ filteredAvailabilityDates =
           << Date(locationAvailabilityDates[2].AvailabilityDate, <<10>>) >>
    /\ booking.hour = 10

\* C14: a candidate is the first slot, in the order returned, of the first
\* date, in the order returned, whose filtered slot list is not empty.
C14_FirstSurvivingSlot ==
    (filterApplied /\ found)
    => /\ booking.day = FirstSurviving(config, availableDates).day
       /\ booking.hour = FirstSurviving(config, availableDates).hour

\* the candidate is neither the earliest date nor the earliest slot left
C14_Witness ==
    /\ filterApplied /\ found
    /\ \E i \in 1..Len(filteredAvailabilityDates) :
           filteredAvailabilityDates[i].AvailabilityDate < booking.day
    /\ \E j \in 1..Len(filteredAvailabilityDates[1].AvailableTimeSlots) :
           filteredAvailabilityDates[1].AvailableTimeSlots[j] < booking.hour

\* C18: the step that ends a check whose response has dates passing the date
\* filter but no slot in the hour window leaves the queue unpaused, sends no
\* hold request, ends no process, keeps run() in its loop and starts the
\* check of the next location of the round.
C18_NoSlotLeftRejects ==
    [][(/\ filterApplied
        /\ Len(availableDates) > 0 /\ Len(filteredAvailabilityDates) = 0
        /\ running' # running)
       => (/\ ~isPaused' /\ ~found' /\ Alive'
           /\ PathHoldSlot \notin sent'
           /\ pc' \in {"addAll", "sleep"}
           /\ Len(queue) > 0 => (running' = {Started(Head(queue))}
                                 /\ queue' = Tail(queue)))]_vars

\* both checks of the round have ended that way
C18_Witness ==
    /\ filterApplied
    /\ Len(availableDates) > 0 /\ Len(filteredAvailabilityDates) = 0
    /\ running = {} /\ queue = << >>
    /\ ~isPaused /\ Alive /\ ~found /\ pc = "sleep"

\* ------------------------------------------------- claims on error handling
\* C16: the step in which the request of a check throws either retries the
\* request (retryTime below maxRetry) or, at the ceiling, ends the process
\* with code 1.
C16_ThrowRetried ==
    [][(~thrown /\ thrown')
       => \A t \in running :
              IF t.req.retryTime < config.maxRetry
              THEN \E u \in running' :
                       /\ u.loc = t.loc /\ u.round = t.round
                       /\ u.req.retryTime = t.req.retryTime + 1
              ELSE exitCode' = 1]_vars

\* C17: a process ended by the retry ceiling, by an empty location prompt,
\* by an uncaught exception or by the policy violation has a non-zero exit
\* code; one ended because no location is within the distance has code 0.
C17_FatalExitNonZero ==
    /\ exitCause \in {"retry", "noselection", "crash", "policy"} => exitCode > 0
    /\ exitCause = "nolocation" => exitCode = 0

\* the number of configured locations
Locations == IF availableLocation = NullLocation THEN 0 ELSE availableLocation

\* the rounds of the checks that wait or execute
RoundsInQueue ==
    {queue[i].round : i \in 1..Len(queue)} \cup {t.round : t \in running}

\* C19: the checks that wait or execute belong to at most two rounds and
\* are at most twice the number of locations, paused or not.
C19_AtMostTwoRounds ==
    /\ Cardinality(RoundsInQueue) <= 2
    /\ Len(queue) + Cardinality(running) <= 2 * Locations

\* the third round has been added while checks of the second still wait
C19_Witness ==
    /\ Cardinality(RoundsInQueue) = 2
    /\ availableLocation >= 2
    /\ Len(queue) + Cardinality(running) = 2 * availableLocation - 1
    /\ round >= 3

\* some check has failed with an exception: its request threw, or line 172
\* threw on a null location
Failed ==
    \/ thrown
    \/ \E t \in checked : t.loc \in nullElements

\* C20: the step in which a check fails with an exception (its request
\* throws, line 172 throws as it starts, or line 208 throws on its response)
\* leaves the queue unpaused and the process alive, and run() stays in its
\* loop; and from a failed check in a round before round MaxRounds, unless a
\* candidate is found or the process exits, getLocationDates is called for
\* every location again in the later round MaxRounds.
C20_ExceptionAbsorbed ==
    /\ [][(\/ ~thrown /\ thrown'
           \/ \E t \in running, dates \in DatesResponses : CheckError(t, dates)
           \/ \E t \in checked' \ checked : t.loc \in nullElements')
          => (/\ ~isPaused' /\ Alive'
              /\ pc' \in {"addAll", "sleep"})]_vars
    /\ (Failed /\ Alive /\ ~found /\ round < MaxRounds)
       ~> (\/ found \/ ~Alive
           \/ \A l \in 1..availableLocation : Task(l, MaxRounds) \in checked)

\* a request has thrown and a null location has thrown at line 172, and
\* every location, the null one included, was checked again in round
\* MaxRounds
C20_Witness ==
    /\ thrown /\ nullElements # {} /\ Alive /\ ~found /\ ~isPaused
    /\ availableLocation = MaxLocations
    /\ \A l \in 1..MaxLocations : Task(l, MaxRounds) \in checked

====
